---- MODULE Spec2Model ----
(***************************************************************************)
(* A model of the Zoom command-line client (scripts/zoom.py) and of the    *)
(* webhook receiver (scripts/webhook.py).                                  *)
(*                                                                         *)
(*   SpecToken    invocations of get_token(), one after the other          *)
(*   SpecApi      one invocation of api(): get_token(), then the 429 loop  *)
(*   SpecWebhook  the webhook receiver answering POST and GET requests     *)
(***************************************************************************)
EXTENDS Integers, Sequences, FiniteSets, TLC

VARIABLES
    now,        \* time.time(), in seconds
    cache,      \* content of the file TOKEN_CACHE (/tmp/zoom_token.json)
    issued,     \* number of tokens the provider has granted so far
    lastRefresh,\* the last completed refresh of the cache file (history)
    pc,         \* per invocation: position in get_token() / api()
    caller,     \* per invocation: entry point, "get_token" or "api"
    env,        \* per invocation: os.environ after _load_env()
    seen,       \* per invocation: what the cache check read, and when
    data,       \* per invocation: the grant response being persisted
    calls,      \* per invocation: cache reads, grant requests, cache writes
    outcome,    \* per invocation: how get_token() / api() ended
    http,       \* per invocation: the request loop of api()
    server,     \* the webhook receiver
    cmd         \* the command of the CLI that is running, and what it did so far

cliVars == <<now, cache, issued, lastRefresh, pc, caller, env, seen, data, calls, outcome, http, cmd>>
vars == <<now, cache, issued, lastRefresh, pc, caller, env, seen, data, calls, outcome, http, server, cmd>>

(***************************************************************************)
(* Bounds of the model.                                                    *)
(***************************************************************************)
MaxTime == 16
MaxGrants == 2

(***************************************************************************)
(* Constants of the program.                                               *)
(***************************************************************************)
ExpiryMargin == 60
DefaultExpiresIn == 3600
MaxAttempts == 3
DefaultRetryAfter == 5

Procs == {"p1", "p2"}

\* the invocation that runs when commands are run one after the other
Sequential == {"p1"}

\* seconds the clock may advance between two steps
TickSteps == {1, 3}

\* expires_in values a grant may carry: below the margin, just above it, well above it
ExpiresInValues == {30, 61, 63}

(***************************************************************************)
(* Environment: ZOOM_ACCOUNT_ID, ZOOM_CLIENT_ID, ZOOM_CLIENT_SECRET.       *)
(***************************************************************************)
CredNames == {"ZOOM_ACCOUNT_ID", "ZOOM_CLIENT_ID", "ZOOM_CLIENT_SECRET"}

\* a variable is not set, set to the empty string, or set to a value
EnvValues == {"unset", "empty", "set"}

Environments == [CredNames -> EnvValues]

AllSet == [k \in CredNames |-> "set"]

\* .env files: none (or one naming no credential), one naming all three, and
\* two that name some of them or leave one empty
DotEnvFiles ==
    {[k \in CredNames |-> "unset"],
     AllSet,
     [k \in CredNames |-> IF k = "ZOOM_CLIENT_SECRET" THEN "set" ELSE "unset"],
     [k \in CredNames |-> IF k = "ZOOM_ACCOUNT_ID" THEN "empty" ELSE "set"]}

\* os.environ.setdefault(k, v) for each line of the .env file: the process
\* environment wins, the file fills in what the process environment lacks
LoadEnv(osEnv, dotEnv) ==
    [k \in CredNames |-> IF osEnv[k] # "unset" THEN osEnv[k] ELSE dotEnv[k]]

\* all([account_id, client_id, client_secret]): None and "" are both false
CredentialsAnySet(e) == \E k \in CredNames : e[k] = "set"

CredentialsPresent(e) == \A k \in CredNames : e[k] = "set"

(***************************************************************************)
(* The token cache file.                                                   *)
(***************************************************************************)
NoFile == [kind |-> "absent", has_token |-> FALSE, access_token |-> 0,
           has_exp |-> FALSE, expires_at |-> 0]

\* a file just opened for writing: truncated to nothing (json.load rejects it)
Empty == [NoFile EXCEPT !.kind = "empty"]

\* a file that holds text json.load rejects
NotJson == [NoFile EXCEPT !.kind = "notjson"]

\* JSON that is not an object (a list, a number, a string, null)
NotObject == [NoFile EXCEPT !.kind = "notobject"]

Object(hasTok, tok, hasExp, exp) ==
    [kind |-> "object", has_token |-> hasTok, access_token |-> IF hasTok THEN tok ELSE 0,
     has_exp |-> hasExp, expires_at |-> IF hasExp THEN exp ELSE 0]

\* token 0 is one granted before the model starts
InitCaches ==
    {NoFile, NotJson, NotObject,
     Object(TRUE, 0, TRUE, 61), Object(TRUE, 0, TRUE, 63), Object(TRUE, 0, TRUE, 60),
     Object(FALSE, 0, TRUE, 63), Object(TRUE, 0, FALSE, 0)}

\* cached.get("expires_at", 0)
CachedExpiresAt(c) == IF c.has_exp THEN c.expires_at ELSE 0

\* cached.get("expires_at", 0) > time.time() + 60
StillValidNoMargin(c, t) == CachedExpiresAt(c) > t

StillValid(c, t) == CachedExpiresAt(c) > t + ExpiryMargin

(***************************************************************************)
(* Grant responses of the token endpoint.                                  *)
(***************************************************************************)
\* the JSON object of a grant: with or without access_token and expires_in
GrantBodies ==
    [has_token : BOOLEAN, has_expires_in : {TRUE}, expires_in : ExpiresInValues]
    \cup [has_token : BOOLEAN, has_expires_in : {FALSE}, expires_in : {0}]

\* requests.post raised / raise_for_status raised / resp.json() raised / a body
GrantResults == {"network_error", "http_error", "bad_body", "ok"}

\* data.get("expires_in", 3600)
ExpiresIn(b) == IF b.has_expires_in THEN b.expires_in ELSE DefaultExpiresIn

\* data["expires_at"] = time.time() + data.get("expires_in", 3600)
ExpiresAtWithoutNow(b, t) == ExpiresIn(b)

ExpiresAt(b, t) == t + ExpiresIn(b)

NoData == [has_token |-> FALSE, access_token |-> 0, has_expires_in |-> FALSE,
           expires_in |-> 0, stamped_at |-> 0, expires_at |-> 0]

NoSeen == [read |-> FALSE, at |-> 0, file |-> NoFile]

NoCalls == [reads |-> 0, grants |-> 0, writes |-> 0]

NoOutcome == [kind |-> "none", value |-> 0]

Returned(v) == [kind |-> "return", value |-> v]

\* sys.exit(1)
SysExit == [kind |-> "sys_exit", value |-> 1]

\* an exception nothing catches: the interpreter prints it and ends with status 1
Uncaught == [kind |-> "exception", value |-> 1]

NoRefresh == [valid |-> FALSE, token |-> 0, at |-> 0, has_expires_in |-> FALSE, expires_in |-> 0]

\* no command yet: its name and position, its meeting_id argument, the value of
\* ZOOM_RTMS_CLIENT_ID, the live meetings it listed and the index of the one it
\* picked, the user id it got, the api() calls it made, the recording files it
\* got, the files still to download, the downloads made, the paths written,
\* the counter and the count it printed (-1: none), and how it ended
NoCmd == [name |-> "none", pc |-> "idle", arg |-> "", rtms |-> "unset",
          meetings |-> <<>>, host |-> 0, user |-> "none", sent |-> <<>>,
          files |-> <<>>, queue |-> <<>>, downloads |-> <<>>, written |-> {},
          downloaded |-> 0, reported |-> -1, result |-> NoOutcome]

\* the "message" member of an error body: absent, text (a sequence of words),
\* or a value that is no text (null, a number)
NoMessage == [kind |-> "absent", text |-> <<>>]

\* api(): the bearer token, requests sent, statuses received, the Retry-After
\* header of each 429, sleeps made, the last body and its message, and the lines
\* the error branch printed
NoHttp == [token |-> 0, attempt |-> 0, statuses |-> <<>>, headers |-> <<>>, sleeps |-> <<>>,
           json |-> FALSE, body |-> 0, err |-> "object", message |-> NoMessage,
           printed |-> <<>>]

(***************************************************************************)
(* get_token()                                                             *)
(***************************************************************************)
Idle(p) == pc[p] \in {"idle", "done"}

\* get_token() hands its token to its caller: to api(), or to the command
AfterToken(p) == IF caller[p] = "api" THEN "request" ELSE "done"

\* lines 53-60: load the environment, exit when a credential is missing
GetTokenEnter(p, osEnv, dotEnv) ==
    LET e == LoadEnv(osEnv, dotEnv) IN
    /\ env' = [env EXCEPT ![p] = e]
    /\ IF CredentialsPresent(e)
       THEN /\ pc' = [pc EXCEPT ![p] = "check_cache"]
            /\ outcome' = [outcome EXCEPT ![p] = NoOutcome]
       ELSE /\ pc' = [pc EXCEPT ![p] = "done"]
            /\ outcome' = [outcome EXCEPT ![p] = SysExit]
    /\ UNCHANGED <<now, cache, issued, lastRefresh, seen, data, calls, http, server, cmd>>

\* a command calls get_token() while no other invocation is running
StartGetToken(p) ==
    /\ pc[p] = "idle"
    /\ \A q \in Procs : Idle(q)
    /\ caller' = [caller EXCEPT ![p] = "get_token"]
    /\ \E osEnv \in Environments, dotEnv \in DotEnvFiles : GetTokenEnter(p, osEnv, dotEnv)

\* what lines 63-70 make of the file: "return", "refresh" or "raise"
CacheVerdict(c, t) ==
    CASE c.kind = "absent" -> "refresh"
      [] c.kind \in {"empty", "notjson"} -> "refresh"
      [] c.kind = "notobject" -> "raise"
      [] OTHER -> IF StillValid(c, t)
                  THEN (IF c.has_token THEN "return" ELSE "refresh")
                  ELSE "refresh"

\* lines 63-70: the cache check
CheckCache(p) ==
    /\ pc[p] = "check_cache"
    /\ seen' = [seen EXCEPT ![p] = [read |-> TRUE, at |-> now, file |-> cache]]
    /\ calls' = [calls EXCEPT ![p].reads = @ + 1]
    /\ LET v == CacheVerdict(cache, now) IN
       CASE v = "return" ->
              /\ pc' = [pc EXCEPT ![p] = AfterToken(p)]
              /\ http' = [http EXCEPT ![p].token = cache.access_token]
              /\ outcome' = [outcome EXCEPT ![p] =
                    IF caller[p] = "api" THEN NoOutcome ELSE Returned(cache.access_token)]
         [] v = "raise" ->
              /\ pc' = [pc EXCEPT ![p] = "done"]
              /\ outcome' = [outcome EXCEPT ![p] = Uncaught]
              /\ UNCHANGED http
         [] OTHER ->
              /\ pc' = [pc EXCEPT ![p] = "grant"]
              /\ UNCHANGED <<outcome, http>>
    /\ UNCHANGED <<now, cache, issued, lastRefresh, caller, env, data, server, cmd>>

\* lines 73-80: the client-credentials grant
Grant(p, result, body) ==
    /\ pc[p] = "grant"
    /\ calls' = [calls EXCEPT ![p].grants = @ + 1]
    /\ IF result = "ok"
       THEN /\ body.has_token => issued < MaxGrants
            /\ issued' = IF body.has_token THEN issued + 1 ELSE issued
            /\ data' = [data EXCEPT ![p] =
                  [NoData EXCEPT !.has_token = body.has_token,
                                 !.access_token = IF body.has_token THEN issued + 1 ELSE 0,
                                 !.has_expires_in = body.has_expires_in,
                                 !.expires_in = body.expires_in]]
            /\ pc' = [pc EXCEPT ![p] = "write_open"]
            /\ UNCHANGED outcome
       ELSE /\ pc' = [pc EXCEPT ![p] = "done"]
            /\ outcome' = [outcome EXCEPT ![p] = Uncaught]
            /\ UNCHANGED <<issued, data>>
    /\ UNCHANGED <<now, cache, lastRefresh, caller, env, seen, http, server, cmd>>

GrantRequest(p) ==
    \E result \in GrantResults, body \in GrantBodies : Grant(p, result, body)

\* lines 81-83: stamp the grant, open the cache file for writing
OpenWrite(p) ==
    /\ pc[p] = "write_open"
    /\ data' = [data EXCEPT ![p].stamped_at = now, ![p].expires_at = ExpiresAt(data[p], now)]
    /\ cache' = Empty
    /\ calls' = [calls EXCEPT ![p].writes = @ + 1]
    /\ lastRefresh' = NoRefresh
    /\ pc' = [pc EXCEPT ![p] = "write_dump"]
    /\ UNCHANGED <<now, issued, caller, env, seen, outcome, http, server, cmd>>

\* the record json.dump(data, f) writes
Persisted(d) == Object(d.has_token, d.access_token, TRUE, d.expires_at)

\* lines 84-86: write the record, close the file, return data["access_token"]
Dump(p, landed) ==
    /\ pc[p] = "write_dump"
    /\ cache' = landed
    /\ IF data[p].has_token
       THEN /\ pc' = [pc EXCEPT ![p] = AfterToken(p)]
            /\ http' = [http EXCEPT ![p].token = data[p].access_token]
            /\ outcome' = [outcome EXCEPT ![p] =
                  IF caller[p] = "api" THEN NoOutcome ELSE Returned(data[p].access_token)]
       ELSE /\ pc' = [pc EXCEPT ![p] = "done"]
            /\ outcome' = [outcome EXCEPT ![p] = Uncaught]
            /\ UNCHANGED http
    /\ lastRefresh' =
          IF data[p].has_token /\ landed = Persisted(data[p])
          THEN [valid |-> TRUE, token |-> data[p].access_token, at |-> data[p].stamped_at,
                has_expires_in |-> data[p].has_expires_in, expires_in |-> data[p].expires_in]
          ELSE NoRefresh
    /\ data' = [data EXCEPT ![p] = NoData]
    /\ UNCHANGED <<now, issued, caller, env, seen, calls, server, cmd>>

\* the file after the write: the record, or, when another writer's bytes are
\* already in the file and reach further than this record, a mix of the two
WriteDump(p) ==
    \E landed \in {Persisted(data[p])} \cup (IF cache.kind = "empty" THEN {} ELSE {NotJson}) :
        Dump(p, landed)

\* the process of the invocation is gone: nothing of it is left but the cache file
Exit(p) ==
    /\ pc[p] = "done"
    /\ pc' = [pc EXCEPT ![p] = "idle"]
    /\ caller' = [caller EXCEPT ![p] = "get_token"]
    /\ env' = [env EXCEPT ![p] = AllSet]
    /\ seen' = [seen EXCEPT ![p] = NoSeen]
    /\ data' = [data EXCEPT ![p] = NoData]
    /\ calls' = [calls EXCEPT ![p] = NoCalls]
    /\ outcome' = [outcome EXCEPT ![p] = NoOutcome]
    /\ http' = [http EXCEPT ![p] = NoHttp]
    /\ UNCHANGED <<now, cache, issued, lastRefresh, server, cmd>>

\* time passes
Tick ==
    /\ \E d \in TickSteps : now + d <= MaxTime /\ now' = now + d
    /\ UNCHANGED <<cache, issued, lastRefresh, pc, caller, env, seen, data, calls, outcome, http, server, cmd>>

(***************************************************************************)
(* api()                                                                   *)
(***************************************************************************)
Statuses == {200, 201, 204, 400, 401, 403, 404, 429, 500}

\* the Retry-After header: absent, an integer, or text int() rejects (a date)
NoHeader == [kind |-> "absent", value |-> 0]

RetryAfterHeaders ==
    {NoHeader, [kind |-> "text", value |-> 0]}
    \cup {[kind |-> "int", value |-> v] : v \in {-1, 0, 2}}

\* resp.ok
OkBelow500(r) == r.status < 500

Ok(r) == r.status < 400

\* messages of error bodies, word by word
Text(words) == [kind |-> "str", text |-> words]

Messages ==
    {NoMessage, [kind |-> "other", text |-> <<>>],
     Text(<<"User", "not", "found">>),
     Text(<<"Invalid", "access", "token">>),
     Text(<<"Missing", "Scopes">>),
     Text(<<"Feature", "has", "Not", "Been", "Enabled">>),
     Text(<<"Access", "not", "enabled">>)}

\* bodies are told apart by a number; json says whether resp.json() decodes it,
\* err whether the decoded value is an object
ApiResponses ==
    {[status |-> 429, json |-> FALSE, body |-> 0, err |-> "object", message |-> NoMessage,
      retry_after |-> h] : h \in RetryAfterHeaders}
    \cup {[status |-> 204, json |-> FALSE, body |-> 0, err |-> "object", message |-> NoMessage,
           retry_after |-> NoHeader]}
    \cup {[status |-> st, json |-> FALSE, body |-> 0, err |-> "object", message |-> NoMessage,
           retry_after |-> NoHeader] : st \in Statuses \ {429, 204}}
    \cup {[status |-> st, json |-> TRUE, body |-> b, err |-> "object", message |-> NoMessage,
           retry_after |-> NoHeader] : st \in {200, 201}, b \in {1, 2}}
    \cup {[status |-> st, json |-> TRUE, body |-> 1, err |-> "object", message |-> m,
           retry_after |-> NoHeader] : st \in Statuses \ {200, 201, 204, 429}, m \in Messages}
    \cup {[status |-> st, json |-> TRUE, body |-> 1, err |-> "other", message |-> NoMessage,
           retry_after |-> NoHeader] : st \in Statuses \ {200, 201, 204, 429}}

\* resp.reason, the default of err.get("message", resp.reason)
Reason(status) ==
    CASE status = 400 -> Text(<<"Bad", "Request">>)
      [] status = 401 -> Text(<<"Unauthorized">>)
      [] status = 403 -> Text(<<"Forbidden">>)
      [] status = 404 -> Text(<<"Not", "Found">>)
      [] OTHER -> Text(<<"Internal", "Server", "Error">>)

\* str.lower() of a word
LowerWord(w) ==
    CASE w = "User" -> "user" [] w = "Invalid" -> "invalid" [] w = "Missing" -> "missing"
      [] w = "Scopes" -> "scopes" [] w = "Feature" -> "feature" [] w = "Not" -> "not"
      [] w = "Been" -> "been" [] w = "Enabled" -> "enabled" [] w = "Access" -> "access"
      [] w = "Bad" -> "bad" [] w = "Request" -> "request"
      [] w = "Unauthorized" -> "unauthorized" [] w = "Forbidden" -> "forbidden"
      [] w = "Found" -> "found" [] w = "Internal" -> "internal" [] w = "Server" -> "server"
      [] w = "Error" -> "error"
      [] OTHER -> w

LowerText(words) == [i \in 1..Len(words) |-> LowerWord(words[i])]

\* the needle is a substring of the word
Within(needle, word) == needle = word \/ (needle = "scope" /\ word = "scopes")

\* phrase in text: the words of the phrase, one after the other
In(phrase, words) ==
    \E i \in 1..Len(words) :
        /\ i + Len(phrase) - 1 <= Len(words)
        /\ \A k \in 1..Len(phrase) : Within(phrase[k], words[i + k - 1])

\* line 109; "raise" when msg.lower() is evaluated on a value that is no text
ScopeHintByMessage(status, msg) ==
    IF msg.kind # "str" THEN "raise"
    ELSE IF In(<<"scope">>, LowerText(msg.text)) \/ In(<<"access", "token">>, LowerText(msg.text))
    THEN "hint" ELSE "none"

ScopeHint(status, msg) ==
    IF status = 401 THEN "hint"
    ELSE IF msg.kind # "str" THEN "raise"
    ELSE IF In(<<"scope">>, LowerText(msg.text)) \/ In(<<"access", "token">>, LowerText(msg.text))
    THEN "hint" ELSE "none"

\* line 111
FeatureHint(status, msg) ==
    IF status # 403 THEN "none"
    ELSE IF msg.kind # "str" THEN "raise"
    ELSE IF In(<<"not", "been", "enabled">>, LowerText(msg.text)) THEN "hint" ELSE "none"

\* lines 103-115: the lines the error branch prints to stderr; "error" is the
\* line with code and message, "raw" the line with the status and resp.text
ErrorLines(r) ==
    IF ~r.json \/ r.err # "object" THEN <<"raw">>
    ELSE LET msg == IF r.message.kind = "absent" THEN Reason(r.status) ELSE r.message
             scope == ScopeHint(r.status, msg)
             feature == FeatureHint(r.status, msg)
         IN IF scope = "raise" THEN <<"error", "raw">>
            ELSE IF feature = "raise"
            THEN <<"error">> \o (IF scope = "hint" THEN <<"scope_hint">> ELSE <<>>) \o <<"raw">>
            ELSE <<"error">> \o (IF scope = "hint" THEN <<"scope_hint">> ELSE <<>>)
                             \o (IF feature = "hint" THEN <<"feature_hint">> ELSE <<>>)

\* range(3)
LoopEndsAt(attempt) == attempt >= MaxAttempts + 1

LoopEnds(attempt) == attempt >= MaxAttempts

\* int(resp.headers.get("Retry-After", 5)); "raise" when int() rejects the text
RetryAfter(r) ==
    CASE r.retry_after.kind = "absent" -> [kind |-> "int", value |-> DefaultRetryAfter]
      [] r.retry_after.kind = "int" -> r.retry_after
      [] OTHER -> [kind |-> "raise", value |-> 0]

ReturnedNone == [kind |-> "return_none", value |-> 0]

\* lines 96-116 on one response: "retry", or the outcome of api()
OnResponse(r) ==
    CASE r.status = 429 -> [kind |-> "retry", value |-> 0]
      [] r.status = 204 -> ReturnedNone
      [] ~Ok(r) -> SysExit
      [] OTHER -> IF r.json THEN Returned(r.body) ELSE Uncaught

\* a command calls api() while no other invocation is running: line 91
StartApi(p) ==
    /\ pc[p] = "idle"
    /\ \A q \in Procs : Idle(q)
    /\ caller' = [caller EXCEPT ![p] = "api"]
    /\ \E osEnv \in Environments, dotEnv \in DotEnvFiles : GetTokenEnter(p, osEnv, dotEnv)

\* requests.request raised (no connection, the 30 s timeout)
RequestFails(p) ==
    /\ pc[p] = "request"
    /\ http' = [http EXCEPT ![p].attempt = @ + 1]
    /\ pc' = [pc EXCEPT ![p] = "done"]
    /\ outcome' = [outcome EXCEPT ![p] = Uncaught]
    /\ UNCHANGED <<now, cache, issued, lastRefresh, caller, env, seen, data, calls, server, cmd>>

\* lines 94-119: one turn of the loop, from the request to the sleep after a
\* 429, and the end of the loop when that was the last turn
Request(p, r) ==
    /\ pc[p] = "request"
    /\ LET sent == [http[p] EXCEPT !.attempt = @ + 1, !.statuses = Append(@, r.status),
                                   !.headers = IF r.status = 429
                                               THEN Append(@, r.retry_after) ELSE @,
                                   !.json = r.json, !.body = r.body,
                                   !.err = r.err, !.message = r.message,
                                   !.printed = IF r.status \notin {429, 204} /\ ~Ok(r)
                                               THEN ErrorLines(r) ELSE @]
           v == OnResponse(r)
           ra == RetryAfter(r)
       IN IF v.kind # "retry"
          THEN /\ http' = [http EXCEPT ![p] = sent]
               /\ pc' = [pc EXCEPT ![p] = "done"]
               /\ outcome' = [outcome EXCEPT ![p] = v]
               /\ now' = now
          ELSE IF ra.kind = "raise" \/ ra.value < 0
          THEN \* int() or time.sleep() raised ValueError
               /\ http' = [http EXCEPT ![p] = sent]
               /\ pc' = [pc EXCEPT ![p] = "done"]
               /\ outcome' = [outcome EXCEPT ![p] = Uncaught]
               /\ now' = now
          ELSE /\ now + ra.value <= MaxTime
               /\ now' = now + ra.value
               /\ http' = [http EXCEPT ![p] = [sent EXCEPT !.sleeps = Append(@, ra.value)]]
               /\ IF LoopEnds(sent.attempt)
                  THEN /\ pc' = [pc EXCEPT ![p] = "done"]
                       /\ outcome' = [outcome EXCEPT ![p] = SysExit]
                  ELSE UNCHANGED <<pc, outcome>>
    /\ UNCHANGED <<cache, issued, lastRefresh, caller, env, seen, data, calls, server, cmd>>

ApiRequest(p) == \E r \in ApiResponses : Request(p, r)

(***************************************************************************)
(* The webhook receiver (webhook.py).                                      *)
(***************************************************************************)
\* text is a sequence of letters; emails differ in letters and in their case
Emails == {<<>>, <<"a">>, <<"A">>, <<"b">>, <<"a", "B">>, <<"A", "b">>, <<"a", "b">>}

\* str.lower(), letter by letter
LowerChar(c) == CASE c = "A" -> "a" [] c = "B" -> "b" [] OTHER -> c

Lower(t) == [i \in 1..Len(t) |-> LowerChar(t[i])]

\* sender.get("email", "").lower() == my_email.lower()
SelfMessageExact(email, myEmail) == email = myEmail

SelfMessage(email, myEmail) == Lower(email) = Lower(myEmail)

\* values of ZOOM_WEBHOOK_SECRET_TOKEN ("" when it is not set) and of ZOOM_USER_EMAIL
Secrets == {"", "abc", "s2"}

MyEmails == {<<>>, <<"a">>, <<"A", "b">>}

\* hmac.new(key, msg, hashlib.sha256).hexdigest(): a digest is told apart by
\* the key and the message it was computed from
NoDigest == [alg |-> "none", key |-> "", msg |-> ""]

Hmac(key, msg) == [alg |-> "hmac-sha256-hex", key |-> key, msg |-> msg]

\* line 73: keyed with the secret, over the plain token
SignKeyedWithToken(secret, token) == Hmac(token, secret)

Sign(secret, token) == Hmac(secret, token)

\* payload.plainToken of a request: absent, a string, a string that holds a
\* lone surrogate (UTF-8 cannot encode it), or a value that is no string
\* (false-like: 0, null, [], {}; true-like: 5, [1])
AbsentToken == [kind |-> "absent", text |-> ""]

PlainTokens ==
    {AbsentToken,
     [kind |-> "surrogate", text |-> "\\ud800"],
     [kind |-> "falsy", text |-> "0"],
     [kind |-> "truthy", text |-> "5"]}
    \cup {[kind |-> "str", text |-> t] : t \in {"", "xyz", "abc"}}

\* the truth value Python gives the token in "WEBHOOK_SECRET and plain_token"
Truthy(tok) ==
    \/ tok.kind \in {"surrogate", "truthy"}
    \/ tok.kind = "str" /\ tok.text # ""

\* line 72: if WEBHOOK_SECRET and plain_token
ChallengeGuardWithoutSecret(secret, tok) == Truthy(tok)

ChallengeGuard(secret, tok) == secret # "" /\ Truthy(tok)

AbsentEmail == [kind |-> "absent", text |-> <<>>]

SenderEmails ==
    {AbsentEmail, [kind |-> "other", text |-> <<>>]}
    \cup {[kind |-> "str", text |-> e] : e \in Emails}

Events == {"endpoint.url_validation", "chat_message.sent", "meeting.started",
           "meeting.ended", "recording.completed", "foo.bar", ""}

\* a JSON value where an object is expected: absent, an object, or anything else
Shapes == {"absent", "object", "other"}

\* the body of a POST.  body: "empty", "malformed" (text that is not JSON),
\* "invalid_utf8" (bytes that are no text) or "json"; shape: the JSON value is
\* an object or not; then the fields do_POST looks at
Blank ==
    [body |-> "json", shape |-> "object", event |-> "", payload |-> "absent",
     plainToken |-> AbsentToken, object |-> "absent", sender |-> "absent",
     email |-> AbsentEmail, channel |-> "absent"]

NonJsonBodies == {[Blank EXCEPT !.body = b, !.shape = "other"] : b \in {"empty", "malformed", "invalid_utf8"}}

ValidationBodies ==
    {[Blank EXCEPT !.event = "endpoint.url_validation", !.payload = "object", !.plainToken = t] :
        t \in PlainTokens}

ChatBodies ==
    {[Blank EXCEPT !.event = "chat_message.sent", !.payload = "object", !.object = "object",
                   !.sender = "object", !.email = e, !.channel = c] :
        e \in SenderEmails, c \in {"absent", "str", "other"}}
    \cup {[Blank EXCEPT !.event = "chat_message.sent", !.payload = "object", !.object = "object",
                        !.sender = sh] : sh \in {"absent", "other"}}

\* every event with a payload, or a payload.object, that is absent or no object
ShapeBodies ==
    {[Blank EXCEPT !.event = ev, !.payload = sh] : ev \in Events, sh \in Shapes}
    \cup {[Blank EXCEPT !.event = ev, !.payload = "object", !.object = sh] : ev \in Events, sh \in Shapes}

Bodies ==
    NonJsonBodies \cup {[Blank EXCEPT !.shape = "other"]}
    \cup ValidationBodies \cup ChatBodies \cup ShapeBodies

\* subprocess.run returned 0, returned an error code, could not start
\* clawdbot, or ran into the 30 s timeout
NotifyResults == {"ok", "error_code", "not_started", "timeout"}

\* what subprocess.run raises
RunRaises(result) ==
    CASE result = "not_started" -> "FileNotFoundError"
      [] result = "timeout" -> "TimeoutExpired"
      [] OTHER -> "none"

\* except Exception: both are subclasses of Exception
ExceptException(exc) == exc \in {"FileNotFoundError", "TimeoutExpired"}

\* lines 42-52: the exception that leaves notify(), "none" when none does
notify(message, result) ==
    LET exc == RunRaises(result) IN
    IF exc # "none" /\ ~ExceptException(exc) THEN exc ELSE "none"

NoBody == [kind |-> "none", plainToken |-> "", encryptedToken |-> NoDigest]

HealthBody == [NoBody EXCEPT !.kind = "health"]

\* the handler raised: the connection is closed with no response sent
Raised(exc) ==
    [raised |-> exc, sent |-> FALSE, status |-> 0, content_type |-> "", body |-> NoBody,
     notified |-> <<>>]

Respond(status, ctype, body, notified) ==
    [raised |-> "none", sent |-> TRUE, status |-> status, content_type |-> ctype,
     body |-> body, notified |-> notified]

\* json.loads(body) on bytes: decodes them as text first
JsonLoads(req) ==
    CASE req.body \in {"empty", "malformed"} -> "JSONDecodeError"
      [] req.body = "invalid_utf8" -> "UnicodeDecodeError"
      [] OTHER -> "none"

\* a notification was built; notify() is called, then lines 122-123 answer
NotifyThenAck(template, result) ==
    LET exc == notify(template, result) IN
    IF exc # "none" THEN [Raised(exc) EXCEPT !.notified = <<template>>]
    ELSE Respond(200, "", NoBody, <<template>>)

\* lines 70-80; "fall_through" when the guard of line 72 is false
UrlValidation(secret, req) ==
    IF req.payload = "other" THEN Raised("AttributeError")
    ELSE IF ~ChallengeGuard(secret, req.plainToken) THEN [Raised("none") EXCEPT !.raised = "fall_through"]
    ELSE IF req.plainToken.kind = "surrogate" THEN Raised("UnicodeEncodeError")
    ELSE IF req.plainToken.kind # "str" THEN Raised("AttributeError")
    ELSE Respond(200, "application/json",
                 [kind |-> "tokens", plainToken |-> req.plainToken.text,
                  encryptedToken |-> Sign(secret, req.plainToken.text)], <<>>)

\* lines 83-98
ChatMessage(myEmail, req, result) ==
    IF req.payload = "other" \/ req.object = "other" \/ req.sender = "other"
    THEN Raised("AttributeError")
    ELSE IF req.email.kind = "other" THEN Raised("AttributeError")
    ELSE IF SelfMessage(req.email.text, myEmail) THEN Respond(200, "", NoBody, <<>>)
    ELSE IF req.channel = "other" THEN Raised("TypeError")
    ELSE NotifyThenAck("chat_message.sent", result)

\* lines 101-117: meeting.started, meeting.ended, recording.completed
TopicEvent(req, result) ==
    IF req.payload = "other" \/ req.object = "other" THEN Raised("AttributeError")
    ELSE NotifyThenAck(req.event, result)

\* lines 82-123: the dispatch on the event name
DispatchNotifyingUnhandled(myEmail, req, result) ==
    CASE req.event = "chat_message.sent" -> ChatMessage(myEmail, req, result)
      [] req.event \in {"meeting.started", "meeting.ended", "recording.completed"} ->
            TopicEvent(req, result)
      [] OTHER -> NotifyThenAck(req.event, result)

Dispatch(myEmail, req, result) ==
    CASE req.event = "chat_message.sent" -> ChatMessage(myEmail, req, result)
      [] req.event \in {"meeting.started", "meeting.ended", "recording.completed"} ->
            TopicEvent(req, result)
      [] OTHER -> Respond(200, "", NoBody, <<>>)

\* do_POST
do_POST(secret, myEmail, req, result) ==
    LET parse == JsonLoads(req) IN
    IF parse = "JSONDecodeError" THEN Respond(400, "", NoBody, <<>>)
    ELSE IF parse # "none" THEN Raised(parse)
    ELSE IF req.shape # "object" THEN Raised("AttributeError")
    ELSE IF req.event = "endpoint.url_validation"
    THEN LET v == UrlValidation(secret, req) IN
         IF v.raised = "fall_through" THEN Dispatch(myEmail, req, result) ELSE v
    ELSE Dispatch(myEmail, req, result)

\* do_GET: the health check
do_GET == Respond(200, "application/json", HealthBody, <<>>)

NoExchange == [method |-> "none", req |-> Blank, result |-> "none", resp |-> Raised("none")]

\* the server answers one POST; an exception in the handler is printed by the
\* server, which closes the connection and goes on serving
Post(req, result) ==
    /\ server.up
    /\ LET resp == do_POST(server.secret, server.my_email, req, result) IN
       server' = [server EXCEPT !.last =
                    [method |-> "POST", req |-> req,
                     result |-> IF resp.notified = <<>> THEN "none" ELSE result,
                     resp |-> resp]]
    /\ UNCHANGED cliVars

Get ==
    /\ server.up
    /\ server' = [server EXCEPT !.last =
                    [method |-> "GET", req |-> Blank, result |-> "none", resp |-> do_GET]]
    /\ UNCHANGED cliVars

NoServer == [up |-> FALSE, secret |-> "", my_email |-> <<>>, last |-> NoExchange]

InitCli ==
    /\ now = 0
    /\ issued = 0
    /\ lastRefresh = NoRefresh
    /\ pc = [p \in Procs |-> "idle"]
    /\ caller = [p \in Procs |-> "get_token"]
    /\ env = [p \in Procs |-> AllSet]
    /\ seen = [p \in Procs |-> NoSeen]
    /\ data = [p \in Procs |-> NoData]
    /\ calls = [p \in Procs |-> NoCalls]
    /\ outcome = [p \in Procs |-> NoOutcome]
    /\ http = [p \in Procs |-> NoHttp]
    /\ cmd = NoCmd

InitToken ==
    /\ InitCli
    /\ cache \in InitCaches
    /\ server = NoServer

NextToken ==
    \/ \E p \in Sequential : StartGetToken(p)
    \/ \E p \in Sequential : CheckCache(p)
    \/ \E p \in Sequential : GrantRequest(p)
    \/ \E p \in Sequential : OpenWrite(p)
    \/ \E p \in Sequential : WriteDump(p)
    \/ \E p \in Sequential : Exit(p)
    \/ Tick

SpecToken == InitToken /\ [][NextToken]_vars

(***************************************************************************)
(* two invocations of get_token() at once: two processes of the CLI share  *)
(* nothing but the cache file, and the provider answers both grants. The   *)
(* clock stands still while they run: grants of lifetime 30 and 61 make    *)
(* the record one of them writes expired or valid for the other.           *)
(***************************************************************************)
\* the cache is absent, or its record has expired
RaceCaches == {NoFile, Object(TRUE, 0, TRUE, 60)}

InitRace ==
    /\ InitCli
    /\ cache \in RaceCaches
    /\ server = NoServer

\* a process enters get_token() with its credentials set, whatever the other does
StartRace(p) ==
    /\ pc[p] = "idle"
    /\ caller' = [caller EXCEPT ![p] = "get_token"]
    /\ GetTokenEnter(p, AllSet, AllSet)

\* lines 73-80 when the provider issues a token
GrantSucceeds(p) == \E body \in GrantBodies : body.has_token /\ Grant(p, "ok", body)

NextRace ==
    \/ \E p \in Procs : StartRace(p)
    \/ \E p \in Procs : CheckCache(p)
    \/ \E p \in Procs : GrantSucceeds(p)
    \/ \E p \in Procs : OpenWrite(p)
    \/ \E p \in Procs : WriteDump(p)

SpecRace == InitRace /\ [][NextRace]_vars

\* api() reads the clock through get_token() alone; of the time that passes,
\* only its own sleeps are followed
NextApi ==
    \/ \E p \in Sequential : StartApi(p)
    \/ \E p \in Sequential : CheckCache(p)
    \/ \E p \in Sequential : GrantRequest(p)
    \/ \E p \in Sequential : OpenWrite(p)
    \/ \E p \in Sequential : WriteDump(p)
    \/ \E p \in Sequential : ApiRequest(p)
    \/ \E p \in Sequential : RequestFails(p)
    \/ \E p \in Sequential : Exit(p)

SpecApi == InitToken /\ [][NextApi]_vars

\* the receiver starts with the secret and the email of its environment
InitWebhook ==
    /\ InitCli
    /\ cache = NoFile
    /\ \E secret \in Secrets, myEmail \in MyEmails :
          server = [NoServer EXCEPT !.up = TRUE, !.secret = secret, !.my_email = myEmail]

NextWebhook ==
    \/ \E req \in Bodies, result \in NotifyResults : Post(req, result)
    \/ Get

SpecWebhook == InitWebhook /\ [][NextWebhook]_vars

(***************************************************************************)
(* Commands. Each api() call of a command is one step here; it ends as     *)
(* api() can end: sys.exit(1), an exception, None (204) or a decoded body. *)
(***************************************************************************)
\* args.meeting_id as typed on the command line
MeetingArgs == {"", "1"}

\* the id of a listed meeting: missing, a number, or text
NoId == [kind |-> "absent", digits |-> ""]

MeetingIds ==
    {NoId, [kind |-> "int", digits |-> "1"], [kind |-> "str", digits |-> "1"],
     [kind |-> "int", digits |-> "2"]}

\* str(v)
Str(v) == IF v.kind = "absent" THEN "None" ELSE v.digits

\* one entry of "meetings", with its host email missing, empty or set
LiveMeetings == [id : MeetingIds, email : EnvValues]

MeetingLists ==
    {<<>>} \cup {<<a>> : a \in LiveMeetings} \cup {<<a, b>> : a, b \in LiveMeetings}

\* what an api() call gives its caller
Body(kind, value) == [kind |-> kind, value |-> value]

ApiFailures == {SysExit, Uncaught}

ListResults == ApiFailures \cup {ReturnedNone} \cup {Body("meetings", l) : l \in MeetingLists}

UserResults == ApiFailures \cup {ReturnedNone} \cup {Body("user", id) : id \in {"absent", "u1"}}

PatchResults == ApiFailures \cup {ReturnedNone, Body("json", 0)}

\* the command returned: the process ends with status 0
Finished == Returned(0)

\* lines 201, 220: not rtms_client_id
RtmsConfiguredIfDefined(v) == v # "unset"

RtmsConfigured(v) == v = "set"

\* line 187: not host_email
HostEmailKnown(v) == v = "set"

\* line 185: str(m.get("id")) == str(meeting_id)
SameMeeting(m, arg) == Str(m.id) = arg

\* lines 184-185: the first listed meeting with the id, 0 when there is none
RECURSIVE FirstMatch(_, _, _)
FirstMatch(list, arg, k) ==
    IF k > Len(list) THEN 0
    ELSE IF SameMeeting(list[k], arg) THEN k
    ELSE FirstMatch(list, arg, k + 1)

End(c, how) == [c EXCEPT !.pc = "done", !.result = how]

Call(c, method, path) == [c EXCEPT !.sent = Append(@, <<method, path>>)]

\* lines 196-203, 215-222: _require(meeting_id), then ZOOM_RTMS_CLIENT_ID
RtmsCommand(action, arg, rtmsEnv) ==
    /\ cmd.pc = "idle"
    /\ LET c == [NoCmd EXCEPT !.name = action, !.arg = arg, !.rtms = rtmsEnv] IN
       cmd' = IF arg = "" THEN End(c, SysExit)
              ELSE IF ~RtmsConfigured(rtmsEnv) THEN End(c, SysExit)
              ELSE [c EXCEPT !.pc = "list"]
    /\ UNCHANGED <<now, cache, issued, lastRefresh, pc, caller, env, seen, data, calls,
                   outcome, http, server>>

\* lines 183-193: list the live meetings, pick the one with the id, take its host
FetchLiveMeetings(res) ==
    /\ cmd.pc = "list"
    /\ LET c == Call(cmd, "GET", "/metrics/meetings") IN
       cmd' = IF res \in ApiFailures THEN End(c, res)
              ELSE IF res = ReturnedNone THEN End(c, Uncaught)
              ELSE LET k == FirstMatch(res.value, cmd.arg, 1)
                       d == [c EXCEPT !.meetings = res.value]
                   IN IF k = 0 THEN End(d, SysExit)
                      ELSE IF ~HostEmailKnown(res.value[k].email) THEN End(d, SysExit)
                      ELSE [d EXCEPT !.host = k, !.pc = "user"]
    /\ UNCHANGED <<now, cache, issued, lastRefresh, pc, caller, env, seen, data, calls,
                   outcome, http, server>>

\* lines 190-191: fetch the host's user record, return its id
FetchHostUser(res) ==
    /\ cmd.pc = "user"
    /\ LET c == Call(cmd, "GET", "/users/{email}") IN
       cmd' = IF res \in ApiFailures THEN End(c, res)
              ELSE IF res = ReturnedNone THEN End(c, Uncaught)
              ELSE [c EXCEPT !.user = res.value, !.pc = "patch"]
    /\ UNCHANGED <<now, cache, issued, lastRefresh, pc, caller, env, seen, data, calls,
                   outcome, http, server>>

\* lines 205-212, 224-231: the PATCH, then the message
PatchStatus(res) ==
    /\ cmd.pc = "patch"
    /\ LET c == Call(cmd, "PATCH", "/live_meetings/{id}/rtms_app/status") IN
       cmd' = IF res \in ApiFailures THEN End(c, res) ELSE End(c, Finished)
    /\ UNCHANGED <<now, cache, issued, lastRefresh, pc, caller, env, seen, data, calls,
                   outcome, http, server>>

InitCommand ==
    /\ InitCli
    /\ cache = NoFile
    /\ server = NoServer

NextRtms ==
    \/ \E action \in {"rtms-start", "rtms-stop"}, arg \in MeetingArgs, rtmsEnv \in EnvValues :
          RtmsCommand(action, arg, rtmsEnv)
    \/ \E res \in ListResults : FetchLiveMeetings(res)
    \/ \E res \in UserResults : FetchHostUser(res)
    \/ \E res \in PatchResults : PatchStatus(res)

SpecRtms == InitCommand /\ [][NextRtms]_vars

(***************************************************************************)
(* recordings download-transcript                                          *)
(***************************************************************************)
RecordingTypes == {"absent", "audio_transcript", "shared_screen"}

\* line 370
TranscriptTypes == {"audio_transcript", "chat_file", "timeline", "closed_caption"}

FileExtensions == {"absent", "VTT", "MP4"}

\* line 372
TranscriptExtensions == {"vtt", "txt", "srt"}

\* str.lower() of an extension
LowerExt(x) == CASE x = "VTT" -> "vtt" [] x = "MP4" -> "mp4" [] OTHER -> x

\* a recording file; its id is its place in recording_files
RecordingFiles ==
    [recording_type : RecordingTypes, file_extension : FileExtensions, has_url : BOOLEAN]

FileLists ==
    {<<>>} \cup {<<a>> : a \in RecordingFiles} \cup {<<a, b>> : a, b \in RecordingFiles}

RecordingResults == ApiFailures \cup {ReturnedNone} \cup {Body("recording", l) : l \in FileLists}

\* line 370: f.get("recording_type") in (...)
TypeQualifies(f) == f.recording_type \in TranscriptTypes

\* line 372: f.get("file_extension", "").lower() in (...)
ExtQualifies(f) ==
    (IF f.file_extension = "absent" THEN "" ELSE LowerExt(f.file_extension))
        \in TranscriptExtensions

Indices(files) == [i \in 1..Len(files) |-> i]

ByType(files) == SelectSeq(Indices(files), LAMBDA i : TypeQualifies(files[i]))

ByExt(files) == SelectSeq(Indices(files), LAMBDA i : ExtQualifies(files[i]))

\* lines 369-372: transcript_files, as places in recording_files
TranscriptFiles(files) == ByType(files) \o ByExt(files)

\* lines 388-391: the name of the file written for the file at place i
FileName(f, i) ==
    <<IF f.recording_type = "absent" THEN "transcript" ELSE f.recording_type,
      i,
      IF f.file_extension = "absent" THEN "vtt" ELSE LowerExt(f.file_extension)>>

\* line 367: _require(meeting_id)
TranscriptCommand(arg) ==
    /\ cmd.pc = "idle"
    /\ LET c == [NoCmd EXCEPT !.name = "download-transcript", !.arg = arg] IN
       cmd' = IF arg = "" THEN End(c, SysExit) ELSE [c EXCEPT !.pc = "recordings"]
    /\ UNCHANGED <<now, cache, issued, lastRefresh, pc, caller, env, seen, data, calls,
                   outcome, http, server>>

\* lines 368-376: fetch the recording, select the transcript files
FetchRecordings(res) ==
    /\ cmd.pc = "recordings"
    /\ LET c == Call(cmd, "GET", "/meetings/{id}/recordings") IN
       cmd' = IF res \in ApiFailures THEN End(c, res)
              ELSE IF res = ReturnedNone THEN End(c, Uncaught)
              ELSE LET d == [c EXCEPT !.files = res.value,
                                      !.queue = TranscriptFiles(res.value)]
                   IN IF d.queue = <<>> THEN End(d, Finished) ELSE [d EXCEPT !.pc = "token"]
    /\ UNCHANGED <<now, cache, issued, lastRefresh, pc, caller, env, seen, data, calls,
                   outcome, http, server>>

\* line 381: get_token() for the download links
TranscriptToken(res) ==
    /\ cmd.pc = "token"
    /\ cmd' = IF res \in ApiFailures THEN End(cmd, res) ELSE [cmd EXCEPT !.pc = "loop"]
    /\ UNCHANGED <<now, cache, issued, lastRefresh, pc, caller, env, seen, data, calls,
                   outcome, http, server>>

\* lines 384-401: one turn of the loop; fetched says whether the download worked
DownloadNext(fetched) ==
    /\ cmd.pc = "loop"
    /\ cmd.queue # <<>>
    /\ LET i == Head(cmd.queue)
           f == cmd.files[i]
       IN cmd' = IF ~f.has_url THEN [cmd EXCEPT !.queue = Tail(@)]
                 ELSE IF ~fetched THEN End(cmd, Uncaught)
                 ELSE [cmd EXCEPT !.queue = Tail(@),
                                  !.downloads = Append(@, i),
                                  !.written = @ \cup {FileName(f, i)},
                                  !.downloaded = @ + 1]
    /\ UNCHANGED <<now, cache, issued, lastRefresh, pc, caller, env, seen, data, calls,
                   outcome, http, server>>

\* line 403: the count
Report ==
    /\ cmd.pc = "loop"
    /\ cmd.queue = <<>>
    /\ cmd' = End([cmd EXCEPT !.reported = cmd.downloaded], Finished)
    /\ UNCHANGED <<now, cache, issued, lastRefresh, pc, caller, env, seen, data, calls,
                   outcome, http, server>>

NextTranscript ==
    \/ \E arg \in MeetingArgs : TranscriptCommand(arg)
    \/ \E res \in RecordingResults : FetchRecordings(res)
    \/ \E res \in ApiFailures \cup {Returned(1)} : TranscriptToken(res)
    \/ \E fetched \in BOOLEAN : DownloadNext(fetched)
    \/ Report

SpecTranscript == InitCommand /\ [][NextTranscript]_vars

(***************************************************************************)
(* Claims about get_token(), checked under SpecToken.                      *)
(***************************************************************************)
\* the cache check read a complete record: an object with both fields
ReadRecord(p) ==
    /\ seen[p].read
    /\ seen[p].file.kind = "object"
    /\ seen[p].file.has_token
    /\ seen[p].file.has_exp

PastGrant(p) == pc[p] \in {"write_open", "write_dump", "done", "request"}

\* C1: with all three credentials set, a call that reads a record with
\* expires_at > now + 60 returns that record's access_token, makes no grant
\* request and writes nothing to the cache; a call that reads a record with
\* expires_at <= now + 60, or finds no cache file, makes exactly one grant request.
C1_ReuseOrOneRefresh ==
    \A p \in Procs :
        (CredentialsPresent(env[p]) /\ seen[p].read /\ caller[p] = "get_token") =>
            /\ (ReadRecord(p) /\ seen[p].file.expires_at > seen[p].at + 60) =>
                  /\ pc[p] = "done"
                  /\ outcome[p] = Returned(seen[p].file.access_token)
                  /\ calls[p].grants = 0
                  /\ calls[p].writes = 0
                  /\ cache = seen[p].file
            /\ ( /\ \/ (ReadRecord(p) /\ seen[p].file.expires_at <= seen[p].at + 60)
                     \/ seen[p].file.kind = "absent"
                  /\ PastGrant(p) ) =>
                  calls[p].grants = 1

\* a call found a record an earlier call had written, already expired, and refreshed it
C1_Witness ==
    \E p \in Procs :
        /\ pc[p] = "done"
        /\ ReadRecord(p)
        /\ seen[p].file.access_token >= 1
        /\ seen[p].file.expires_at = seen[p].at + 60
        /\ calls[p].grants = 1
        /\ outcome[p].kind = "return"
        /\ outcome[p].value # seen[p].file.access_token

\* the lifetime the claim gives a grant: its expires_in, 3600 when it has none
ClaimedLifetime(r) == IF r.has_expires_in THEN r.expires_in ELSE 3600

\* C2: a call that refreshes at time T with a grant of lifetime E leaves in the
\* cache file the record {access_token: the token it returns, expires_at: T + E};
\* every later call whose cache check happens at a time t with t + 60 < T + E,
\* with no write to the cache in between, returns that token without a grant request.
C2_RefreshThenReuse ==
    [][\A p \in Procs :
        /\ ( /\ pc[p] = "write_dump"
             /\ pc'[p] = "done"
             /\ outcome'[p].kind = "return" ) =>
               cache' = Object(TRUE, outcome'[p].value, TRUE,
                               data[p].stamped_at + ClaimedLifetime(data[p]))
        /\ ( /\ pc[p] = "check_cache"
             /\ pc'[p] # "check_cache"
             /\ caller[p] = "get_token"
             /\ lastRefresh.valid
             /\ now + 60 < lastRefresh.at + ClaimedLifetime(lastRefresh) ) =>
               /\ pc'[p] = "done"
               /\ outcome'[p] = Returned(lastRefresh.token)
               /\ calls'[p].grants = 0
               /\ cache' = cache
      ]_vars

\* a later call, after time has passed, returned the token of a refresh whose
\* grant carried no expires_in
C2_Witness ==
    \E p \in Procs :
        /\ pc[p] = "done"
        /\ lastRefresh.valid
        /\ ~lastRefresh.has_expires_in
        /\ seen[p].read
        /\ seen[p].at > lastRefresh.at
        /\ calls[p].grants = 0
        /\ outcome[p] = Returned(lastRefresh.token)
        /\ cache = Object(TRUE, lastRefresh.token, TRUE, lastRefresh.at + 3600)

\* C5: when any of the three credentials is missing or empty, get_token ends
\* the process with exit code 1 before it reads the cache or sends a request,
\* also when the cache holds a token that is still valid.
C5_MissingCredentialsExit ==
    \A p \in Procs :
        (pc[p] # "idle" /\ \E k \in CredNames : env[p][k] \in {"unset", "empty"}) =>
            /\ pc[p] = "done"
            /\ outcome[p].kind = "sys_exit"
            /\ outcome[p].value = 1
            /\ ~seen[p].read
            /\ calls[p] = [reads |-> 0, grants |-> 0, writes |-> 0]

\* one credential is empty, the others are set, and the cache holds a valid token
C5_Witness ==
    \E p \in Procs :
        /\ pc[p] = "done"
        /\ env[p]["ZOOM_CLIENT_SECRET"] = "empty"
        /\ env[p]["ZOOM_ACCOUNT_ID"] = "set"
        /\ env[p]["ZOOM_CLIENT_ID"] = "set"
        /\ outcome[p] = SysExit
        /\ cache.kind = "object"
        /\ cache.has_token
        /\ cache.access_token >= 1
        /\ cache.expires_at > now + 60

(***************************************************************************)
(* Claims about api(), checked under SpecApi.                              *)
(***************************************************************************)
\* the process ended with exit code 1: sys.exit(1), or an uncaught exception
ExitCode1(p) ==
    /\ pc[p] = "done"
    /\ outcome[p].kind \in {"sys_exit", "exception"}
    /\ outcome[p].value = 1

\* C3: one api() call sends at most 3 requests, and request k+1 only after
\* request k was answered 429; the responses 429, 429, 200 make it return the
\* decoded body of the 200; three 429 in a row end the process with exit
\* code 1 and no fourth request.
C3_BoundedRetry ==
    \A p \in Procs :
        LET h == http[p] IN
        /\ h.attempt <= 3
        /\ \A k \in 1..(h.attempt - 1) : k <= Len(h.statuses) /\ h.statuses[k] = 429
        /\ (h.statuses = <<429, 429, 200>> /\ h.json) =>
              pc[p] = "done" /\ outcome[p] = Returned(h.body)
        /\ h.statuses = <<429, 429, 429>> => ExitCode1(p) /\ h.attempt = 3

\* 429, 429, 200: the body of the 200 is returned after two sleeps
C3_Witness ==
    \E p \in Procs :
        /\ pc[p] = "done"
        /\ http[p].statuses = <<429, 429, 200>>
        /\ http[p].attempt = 3
        /\ Len(http[p].sleeps) = 2
        /\ outcome[p] = Returned(2)

\* C4: the first response that is not 429 decides the outcome: 204 returns
\* None, any other success status returns the decoded JSON body, and a
\* non-success status other than 429 ends the process with exit code 1 at once,
\* with no further request and no sleep.
C4_FirstNon429Decides ==
    \A p \in Procs :
        LET h == http[p]
            n == Len(h.statuses)
        IN (n >= 1 /\ h.statuses[n] # 429 /\ h.attempt = n) =>
            /\ pc[p] = "done"
            /\ \A k \in 1..(n - 1) : h.statuses[k] = 429
            /\ Len(h.sleeps) = n - 1
            /\ h.statuses[n] = 204 => outcome[p].kind = "return_none"
            /\ (h.statuses[n] \in 200..399 /\ h.statuses[n] # 204 /\ h.json) =>
                  outcome[p] = Returned(h.body)
            /\ h.statuses[n] >= 400 => outcome[p].kind = "sys_exit" /\ outcome[p].value = 1

\* a 404 after one 429: fatal after the one sleep the 429 caused
C4_Witness ==
    \E p \in Procs :
        /\ pc[p] = "done"
        /\ http[p].statuses = <<429, 404>>
        /\ http[p].attempt = 2
        /\ Len(http[p].sleeps) = 1
        /\ outcome[p] = SysExit

(***************************************************************************)
(* Claims about the webhook receiver, checked under SpecWebhook.           *)
(***************************************************************************)
\* the last request was a POST whose body parsed as JSON
ParsedPost ==
    /\ server.last.method = "POST"
    /\ server.last.req.body = "json"

\* ... and the JSON is an object that names this event
PostOf(event) ==
    /\ ParsedPost
    /\ server.last.req.shape = "object"
    /\ server.last.req.event = event

Answered(status) ==
    /\ server.last.resp.sent
    /\ server.last.resp.status = status

\* C6, as claimed: every url_validation POST is answered 200 with a JSON body
\* that carries plainToken and encryptedToken, whatever the secret and the
\* plainToken are.
C6_AlwaysTokens ==
    PostOf("endpoint.url_validation") =>
        /\ Answered(200)
        /\ server.last.resp.body.kind = "tokens"

\* C6, amended: a url_validation POST is answered 200 with a JSON body that
\* carries plainToken and encryptedToken when the secret is not empty and
\* payload.plainToken is a non-empty string that UTF-8 can encode; it is
\* answered 200 with no body when the payload is an object or absent and the
\* secret is empty or the plainToken is absent, empty or false-like.
C6_TokensWhenConfigured ==
    PostOf("endpoint.url_validation") =>
        LET req == server.last.req
            resp == server.last.resp
        IN /\ ( /\ server.secret # ""
                /\ req.payload = "object"
                /\ req.plainToken.kind = "str"
                /\ req.plainToken.text # "" ) =>
                  /\ Answered(200)
                  /\ resp.content_type = "application/json"
                  /\ resp.body.kind = "tokens"
           /\ ( /\ req.payload \in {"absent", "object"}
                /\ \/ server.secret = ""
                   \/ req.plainToken.kind \in {"absent", "falsy"}
                   \/ req.plainToken.kind = "str" /\ req.plainToken.text = "" ) =>
                  /\ Answered(200)
                  /\ resp.body.kind = "none"

\* the challenge is answered with the two tokens
C6_Witness ==
    /\ PostOf("endpoint.url_validation")
    /\ server.secret = "s2"
    /\ server.last.req.plainToken = [kind |-> "str", text |-> "xyz"]
    /\ Answered(200)
    /\ server.last.resp.body.kind = "tokens"

\* C7: with a configured secret S and a non-empty plainToken P, the response
\* carries P unchanged as plainToken and the hex HMAC-SHA256 keyed with S over
\* P as encryptedToken, it carries nothing else (S leaves the server inside
\* the digest only), and no notification is sent.
C7_EchoAndDigest ==
    ( /\ PostOf("endpoint.url_validation")
      /\ server.secret # ""
      /\ server.last.req.payload = "object"
      /\ server.last.req.plainToken.kind = "str"
      /\ server.last.req.plainToken.text # "" ) =>
        /\ Answered(200)
        /\ server.last.resp.body =
              [kind |-> "tokens",
               plainToken |-> server.last.req.plainToken.text,
               encryptedToken |-> [alg |-> "hmac-sha256-hex", key |-> server.secret,
                                   msg |-> server.last.req.plainToken.text]]
        /\ server.last.resp.notified = <<>>

\* the reference case: secret "abc", plainToken "xyz"
C7_Witness ==
    /\ PostOf("endpoint.url_validation")
    /\ server.secret = "abc"
    /\ server.last.req.plainToken = [kind |-> "str", text |-> "xyz"]
    /\ server.last.resp.body.plainToken = "xyz"
    /\ server.last.resp.body.encryptedToken.key = "abc"
    /\ server.last.resp.body.encryptedToken.msg = "xyz"

\* C8: once the body of a POST has parsed as JSON the receiver answers 200,
\* for every event name and payload shape and whatever becomes of notify().
C8_AlwaysAcknowledged ==
    ParsedPost => Answered(200)

\* C9: a POST whose body is not JSON is answered 400, calls notify() for
\* nothing and leaves the server serving; also an empty body, also bytes that
\* are no text.
C9_NonJsonIs400 ==
    (server.last.method = "POST" /\ server.last.req.body # "json") =>
        /\ Answered(400)
        /\ server.last.resp.notified = <<>>
        /\ server.up

\* the two texts have the same letters, whatever their case
SameLetter(c, d) ==
    \/ c = d
    \/ {c, d} = {"a", "A"}
    \/ {c, d} = {"b", "B"}

EqualIgnoringCase(t, u) ==
    /\ Len(t) = Len(u)
    /\ \A i \in 1..Len(t) : SameLetter(t[i], u[i])

\* C10: a chat_message.sent whose sender email equals ZOOM_USER_EMAIL but for
\* the case of its letters calls notify() for nothing and is answered 200.
C10_SelfMessageSuppressed ==
    ( /\ PostOf("chat_message.sent")
      /\ server.last.req.email.kind = "str"
      /\ EqualIgnoringCase(server.last.req.email.text, server.my_email) ) =>
        /\ server.last.resp.notified = <<>>
        /\ Answered(200)

\* the sender is "a", "B" and ZOOM_USER_EMAIL is "A", "b"
C10_Witness ==
    /\ PostOf("chat_message.sent")
    /\ server.my_email = <<"A", "b">>
    /\ server.last.req.email = [kind |-> "str", text |-> <<"a", "B">>]
    /\ server.last.resp.notified = <<>>
    /\ Answered(200)

\* the events do_POST has a notification for
Recognized == {"chat_message.sent", "meeting.started", "meeting.ended", "recording.completed"}

\* C11: notify() is called for the four recognized events alone and at most
\* once per POST; a POST that names any other event (one that is neither
\* recognized nor the validation challenge), such as "foo.bar", calls notify()
\* for nothing and is answered 200.
C11_NotifyOnlyRecognized ==
    server.last.method = "POST" =>
        LET req == server.last.req
            resp == server.last.resp
        IN /\ Len(resp.notified) <= 1
           /\ resp.notified # <<>> =>
                 /\ PostOf(req.event)
                 /\ req.event \in Recognized
                 /\ resp.notified = <<req.event>>
           /\ ( /\ ParsedPost
                /\ req.shape = "object"
                /\ req.event \notin Recognized \cup {"endpoint.url_validation"} ) =>
                 /\ resp.notified = <<>>
                 /\ Answered(200)

\* "foo.bar" with a payload that is no object: acknowledged, nothing notified
C11_Witness ==
    /\ PostOf("foo.bar")
    /\ server.last.req.payload = "other"
    /\ server.last.resp.notified = <<>>
    /\ Answered(200)

\* the cache check read a file that holds no usable record
Unusable(f) ==
    \/ f.kind \in {"notjson", "empty", "notobject"}
    \/ f.kind = "object" /\ (~f.has_token \/ ~f.has_exp)

\* C16: a cache file that exists but holds no usable record (no JSON, JSON
\* that is no object, an object without access_token or without expires_at) is
\* treated like no file: get_token does not fail on it, makes one grant
\* request, and a call that gets its token overwrites the file with the new
\* record and returns the new token.
C16_UnusableCacheRefreshed ==
    \A p \in Procs :
        (seen[p].read /\ Unusable(seen[p].file) /\ caller[p] = "get_token") =>
            /\ PastGrant(p) => calls[p].grants = 1
            /\ pc[p] = "done" =>
                  \/ calls[p].writes = 0 /\ calls[p].grants = 1 /\ outcome[p] = Uncaught
                  \/ /\ calls[p].writes = 1
                     /\ cache.kind = "object"
                     /\ outcome[p].kind = "return" =>
                           /\ cache.has_token
                           /\ outcome[p].value = cache.access_token
                           /\ outcome[p].value >= 1

\* api() ended on a non-success status other than 429
Fatal(p) ==
    /\ caller[p] = "api"
    /\ pc[p] = "done"
    /\ http[p].attempt = Len(http[p].statuses)
    /\ http[p].attempt >= 1
    /\ http[p].statuses[http[p].attempt] \in (400..599) \ {429}

FatalStatus(p) == http[p].statuses[http[p].attempt]

\* the error body is an object whose message, if any, is text
TextMessage(p) ==
    /\ http[p].json
    /\ http[p].err = "object"
    /\ http[p].message.kind \in {"absent", "str"}

\* the message the error line shows: the member, or the reason phrase
ShownMessage(p) ==
    IF http[p].message.kind = "absent" THEN Reason(FatalStatus(p)) ELSE http[p].message

\* the message contains the phrase, in any letter case
Mentions(p, phrase) ==
    /\ TextMessage(p)
    /\ In(phrase, LowerText(ShownMessage(p).text))

Printed(p, line) == \E i \in 1..Len(http[p].printed) : http[p].printed[i] = line

C14_SleepsBetweenAttempts ==
    \A p \in Procs :
        LET h == http[p] IN
        (caller[p] = "api" /\ pc[p] = "done" /\ h.attempt >= 1) =>
            /\ Len(h.sleeps) <= h.attempt - 1
            /\ Len(h.sleeps) <= Len(h.headers)
            /\ \A i \in 1..Len(h.sleeps) :
                  i <= Len(h.headers) =>
                      h.sleeps[i] = IF h.headers[i].kind = "absent"
                                    THEN DefaultRetryAfter ELSE h.headers[i].value
            /\ h.statuses = <<429, 429, 429>> => ExitCode1(p) /\ Len(h.sleeps) = 2

\* C12: two invocations of get_token() that run at once against an absent or
\* expired cache, in any interleaving of their reads, grants and writes: neither
\* fails, each returns a token a grant issued (its own, or the one of a complete
\* record it read), and when both have ended the file holds exactly the record
\* of the invocation that wrote last.
C12_LastWriterWins ==
    /\ \A p \in Procs :
          pc[p] = "done" =>
              /\ outcome[p].kind = "return"
              /\ outcome[p].value \in 1..issued
              /\ \/ calls[p].grants = 1 /\ calls[p].writes = 1
                 \/ /\ calls[p].grants = 0
                    /\ seen[p].file.kind = "object"
                    /\ seen[p].file.has_token
                    /\ seen[p].file.access_token = outcome[p].value
    /\ ((\A p \in Procs : pc[p] = "done") /\ (\E p \in Procs : calls[p].writes > 0)) =>
          /\ lastRefresh.valid
          /\ cache = Object(TRUE, lastRefresh.token, TRUE,
                            lastRefresh.at + ClaimedLifetime(lastRefresh))

\* the command made a PATCH call
Patched == \E i \in 1..Len(cmd.sent) : cmd.sent[i][1] = "PATCH"

\* C15: rtms-start and rtms-stop make the PATCH only after ZOOM_RTMS_CLIENT_ID
\* was found set, then the live meetings were listed and hold a meeting with
\* the id, that meeting has a host email, and then the host's user record was
\* fetched; a command that ends without all of this ends with exit code 1 and
\* has made no PATCH.
C15_PatchAfterChecks ==
    cmd.name \in {"rtms-start", "rtms-stop"} =>
        /\ Patched =>
              /\ cmd.rtms = "set"
              /\ cmd.sent = <<<<"GET", "/metrics/meetings">>, <<"GET", "/users/{email}">>,
                              <<"PATCH", "/live_meetings/{id}/rtms_app/status">>>>
              /\ cmd.host \in 1..Len(cmd.meetings)
              /\ Str(cmd.meetings[cmd.host].id) = cmd.arg
              /\ cmd.meetings[cmd.host].email = "set"
              /\ cmd.user # "none"
        /\ (cmd.rtms # "set" \/ cmd.host = 0 \/ cmd.user = "none") =>
              /\ ~Patched
              /\ cmd.pc # "patch"
              /\ cmd.pc = "done" => cmd.result \in {SysExit, Uncaught} /\ cmd.result.value = 1
        /\ cmd.rtms # "set" => cmd.pc = "done" /\ cmd.sent = <<>>

\* rtms-stop of meeting 1, listed second with a number as id: the PATCH is made
\* third and the command ends with status 0
C15_Witness ==
    /\ cmd.name = "rtms-stop"
    /\ Patched
    /\ Len(cmd.sent) = 3
    /\ cmd.host = 2
    /\ cmd.meetings[2].id.kind = "int"
    /\ cmd.result = Finished

\* number of times x occurs in a sequence
Count(seq, x) == Cardinality({k \in 1..Len(seq) : seq[k] = x})

\* C17: download-transcript downloads every recording file that qualifies as
\* a transcript (by recording_type or by file_extension) and has a download_url
\* exactly once, and the count it prints equals the number of distinct files
\* it wrote.
C17_EachTranscriptOnce ==
    (cmd.name = "download-transcript" /\ cmd.pc = "done" /\ cmd.reported >= 0) =>
        /\ \A i \in 1..Len(cmd.files) :
              ((TypeQualifies(cmd.files[i]) \/ ExtQualifies(cmd.files[i]))
                    /\ cmd.files[i].has_url) => Count(cmd.downloads, i) = 1
        /\ cmd.reported = Cardinality(cmd.written)

====
